---------------------------- MODULE Spec2Model ----------------------------
(***************************************************************************)
(* A model of go-env-validator: Validator.ValidateMap, alone and in        *)
(* concurrent calls, parseValue, the Result accessors and Validator.Schema.*)
(*                                                                         *)
(* Strings that the code inspects (raw values, defaults, allowed values)   *)
(* are sequences of one-character strings, so that trimming, case folding  *)
(* and parsing are computed and not assumed.  Keys and kind names are only *)
(* compared by the code and are plain strings.                             *)
(*                                                                         *)
(* The modelled alphabet is: the decimal digits, the ASCII letters except  *)
(* x and X, the space and tab, and + - . : / .  Over it the strconv,       *)
(* net/url and time parsers need neither their hexadecimal, underscore,    *)
(* percent-escape, query nor user-info branches.                           *)
(***************************************************************************)
EXTENDS Integers, Sequences, FiniteSets, TLC

----------------------------------------------------------------------------
(* Characters and strings                                                  *)

DigitChars == <<"0", "1", "2", "3", "4", "5", "6", "7", "8", "9">>

UpperChars == <<"A", "B", "C", "D", "E", "F", "G", "H", "I", "J", "K", "L", "M",
                "N", "O", "P", "Q", "R", "S", "T", "U", "V", "W", "X", "Y", "Z">>

LowerChars == <<"a", "b", "c", "d", "e", "f", "g", "h", "i", "j", "k", "l", "m",
                "n", "o", "p", "q", "r", "s", "t", "u", "v", "w", "x", "y", "z">>

IsDigit(c) == \E k \in 1..Len(DigitChars) : DigitChars[k] = c

DigitVal(c) == (CHOOSE k \in 1..Len(DigitChars) : DigitChars[k] = c) - 1

DigitOf(n) == DigitChars[n + 1]

IsUpper(c) == \E k \in 1..Len(UpperChars) : UpperChars[k] = c

IsLower(c) == \E k \in 1..Len(LowerChars) : LowerChars[k] = c

IsLetter(c) == IsUpper(c) \/ IsLower(c)

\* unicode.IsSpace restricted to the alphabet (strings.TrimSpace).
IsSpace(c) == c \in {" ", "\t"}

\* A control byte (net/url stringContainsCTLByte) of the alphabet.
IsCTL(c) == c = "\t"

LowerChar(c) ==
    IF IsUpper(c) THEN LowerChars[CHOOSE k \in 1..Len(UpperChars) : UpperChars[k] = c]
    ELSE c

\* strings.ToLower
ToLower(s) == [k \in 1..Len(s) |-> LowerChar(s[k])]

\* s[from:] and s[:to] in Go's 0-based half-open indexing.
Drop(s, n) == SubSeq(s, n + 1, Len(s))

Take(s, n) == SubSeq(s, 1, n)

RECURSIVE LeadingSpaces(_)
LeadingSpaces(s) ==
    IF s # <<>> /\ IsSpace(s[1]) THEN 1 + LeadingSpaces(Tail(s)) ELSE 0

RECURSIVE TrailingSpaces(_)
TrailingSpaces(s) ==
    IF s # <<>> /\ IsSpace(s[Len(s)]) THEN 1 + TrailingSpaces(Take(s, Len(s) - 1)) ELSE 0

\* strings.TrimSpace
TrimSpace(s) ==
    LET l == LeadingSpaces(s)
    IN  IF l = Len(s) THEN <<>>
        ELSE SubSeq(s, l + 1, Len(s) - TrailingSpaces(s))

LeadingDigits(s) ==
    IF \A k \in 1..Len(s) : IsDigit(s[k]) THEN Len(s)
    ELSE (CHOOSE k \in 1..Len(s) : ~IsDigit(s[k]) /\ \A j \in 1..(k - 1) : IsDigit(s[j])) - 1

AllDigits(s) == \A k \in 1..Len(s) : IsDigit(s[k])

\* strings.Index for a one-character separator: 0-based, -1 when absent.
IndexChar(s, c) ==
    IF \E k \in 1..Len(s) : s[k] = c
    THEN (CHOOSE k \in 1..Len(s) : s[k] = c /\ \A j \in 1..(k - 1) : s[j] # c) - 1
    ELSE -1

\* strings.LastIndex for a one-character separator.
LastIndexChar(s, c) ==
    IF \E k \in 1..Len(s) : s[k] = c
    THEN (CHOOSE k \in 1..Len(s) : s[k] = c /\ \A j \in (k + 1)..Len(s) : s[j] # c) - 1
    ELSE -1

HasPrefix(s, p) == Len(s) >= Len(p) /\ Take(s, Len(p)) = p

\* strings.Join(list, ", ")
RECURSIVE Join(_)
Join(list) ==
    IF list = <<>> THEN <<>>
    ELSE IF Len(list) = 1 THEN list[1]
    ELSE list[1] \o <<",", " ">> \o Join(Tail(list))

\* fmt's %q of a string of the alphabet: the string between double quotes
\* (a tab is written as the escape \t).
RECURSIVE Escaped(_)
Escaped(s) ==
    IF s = <<>> THEN <<>>
    ELSE (IF s[1] = "\t" THEN <<"\\", "t">> ELSE <<s[1]>>) \o Escaped(Tail(s))

Quote(s) == <<"\"">> \o Escaped(s) \o <<"\"">>

----------------------------------------------------------------------------
(* Unsigned decimal numbers of any size, most significant digit first,     *)
(* without leading zeros (zero is <<"0">>): the 64-bit ranges of strconv   *)
(* and time are decided on them, not on the checker's machine integers.    *)

(* The operators are written without a recursion over the digits, so that *)
(* a number of hundreds of digits is as easy to evaluate as a short one,   *)
(* and an intermediate result that is used more than once is the argument  *)
(* of an operator.                                                         *)

\* The sequence f with its elements evaluated.
AsSeq(f) == SubSeq(f, 1, Len(f))

StripZeros(d) ==
    IF \A k \in 1..Len(d) : d[k] = "0" THEN <<"0">>
    ELSE LET first == CHOOSE k \in 1..Len(d) :
                          d[k] # "0" /\ \A j \in 1..(k - 1) : d[j] = "0"
         IN  SubSeq(d, first, Len(d))

\* -1, 0 or 1 as a < b, a = b, a > b.
BigCmp(a, b) ==
    IF Len(a) < Len(b) THEN -1
    ELSE IF Len(a) > Len(b) THEN 1
    ELSE IF a = b THEN 0
    ELSE LET first == CHOOSE k \in 1..Len(a) :
                          a[k] # b[k] /\ \A j \in 1..(k - 1) : a[j] = b[j]
         IN  IF DigitVal(a[first]) < DigitVal(b[first]) THEN -1 ELSE 1

\* The decimal digits of a machine integer n >= 0.
IntToBig(n) ==
    LET k == CHOOSE j \in 1..10 :
                 n \div (10 ^ (j - 1)) < 10 /\ (j = 1 \/ n \div (10 ^ (j - 2)) >= 10)
    IN  [i \in 1..k |-> DigitOf((n \div (10 ^ (k - i))) % 10)]

\* The carry into the column i of the columns c, each between -1 and 18: a
\* column above 9 carries and a 9 passes a carry on, a column below 0
\* borrows and a 0 passes a borrow on.  NextNot(v) is the first column
\* after i that differs from v, 0 when there is none.
CarryIn(c, i) ==
    LET NextNot(v) ==
            IF \A j \in (i + 1)..Len(c) : c[j] = v THEN 0
            ELSE CHOOSE j \in (i + 1)..Len(c) :
                     c[j] # v /\ \A t \in (i + 1)..(j - 1) : c[t] = v
        Carry(up, down) ==
            (IF up # 0 /\ c[up] > 9 THEN 1 ELSE 0) - (IF down # 0 /\ c[down] < 0 THEN 1 ELSE 0)
    IN  Carry(NextNot(9), NextNot(0))

\* The number whose columns are c (integers, a negative one borrowing), the
\* most significant first, for a result >= 0.  Rounds of carries, each
\* column keeping its last digit and taking the rest of the column after
\* it, until the columns are between -1 and 18 and the first has room.
RECURSIVE Normalize(_)
Normalize(c) ==
    IF c[1] <= 8 /\ \A i \in 1..Len(c) : c[i] >= -1 /\ c[i] <= 18
    THEN StripZeros(AsSeq([i \in 1..Len(c) |-> DigitOf((c[i] + CarryIn(c, i)) % 10)]))
    ELSE Normalize(AsSeq([i \in 1..(Len(c) + 1) |->
                             (IF i = 1 THEN 0 ELSE c[i - 1] % 10)
                             + (IF i > Len(c) THEN 0 ELSE c[i] \div 10)]))

\* DigitAt(x, i) is the digit of x in the column i of n columns, 0 before
\* its first digit.
BigAdd(a, b) ==
    LET n == IF Len(a) > Len(b) THEN Len(a) ELSE Len(b)
        DigitAt(x, i) == IF i > n - Len(x) THEN DigitVal(x[i - (n - Len(x))]) ELSE 0
    IN  Normalize(AsSeq([i \in 1..n |-> DigitAt(a, i) + DigitAt(b, i)]))

\* a - b for a >= b.
BigSub(a, b) ==
    LET DigitAt(i) ==
            IF i > Len(a) - Len(b) THEN DigitVal(b[i - (Len(a) - Len(b))]) ELSE 0
    IN  IF b = <<"0">> THEN a
        ELSE Normalize(AsSeq([i \in 1..Len(a) |-> DigitVal(a[i]) - DigitAt(i)]))

\* a * k for a machine integer 0 <= k < 2^24.
BigMulSmall(a, k) ==
    IF k = 0 \/ a = <<"0">> THEN <<"0">>
    ELSE Normalize(AsSeq([i \in 1..Len(a) |-> DigitVal(a[i]) * k]))

\* The sum of f[i] for i in lo..hi.
RECURSIVE SumRange(_, _, _)
SumRange(f, lo, hi) ==
    IF lo > hi THEN 0
    ELSE IF lo = hi THEN f[lo]
    ELSE SumRange(f, lo, (lo + hi) \div 2) + SumRange(f, (lo + hi) \div 2 + 1, hi)

\* a * b, by the columns of the long multiplication.
BigMul(a, b) ==
    IF a = <<"0">> \/ b = <<"0">> THEN <<"0">>
    ELSE LET la == Len(a)
             lb == Len(b)
             av == AsSeq([i \in 1..la |-> DigitVal(a[i])])
             bv == AsSeq([i \in 1..lb |-> DigitVal(b[i])])
             col(k) ==
                 LET lo == IF k + 1 - lb > 1 THEN k + 1 - lb ELSE 1
                     hi == IF k < la THEN k ELSE la
                 IN  SumRange([i \in lo..hi |-> av[i] * bv[k + 1 - i]], lo, hi)
         IN  Normalize(AsSeq([k \in 1..(la + lb - 1) |-> col(k)]))

Zeros(n) == [k \in 1..n |-> "0"]

\* a * 10^n for n >= 0, and the integer part of a / 10^(-n) for n < 0.
BigShift(a, n) ==
    IF n >= 0 THEN StripZeros(a \o Zeros(n))
    ELSE IF -n >= Len(a) THEN <<"0">>
    ELSE Take(a, Len(a) + n)

\* 2^n.
RECURSIVE Pow2(_)
Pow2(n) ==
    IF n <= 30 THEN IntToBig(2 ^ n) ELSE BigMul(Pow2(n \div 2), Pow2(n - n \div 2))

\* The long division that brings down the digits s after the remainder r
\* of what stands before them, mult the multiples 1 to 9 of the divisor:
\* [quo, rem], quo of as many digits as s.  The digit c of the quotient is
\* the number of multiples that fit.
RECURSIVE DivDigits(_, _, _)
DivDigits(r, s, mult) ==
    IF Len(s) = 1
    THEN LET cur == StripZeros(Append(r, s[1]))
             c   == Cardinality({j \in 1..9 : BigCmp(mult[j], cur) <= 0})
         IN  [quo |-> <<DigitOf(c)>>, rem |-> IF c = 0 THEN cur ELSE BigSub(cur, mult[c])]
    ELSE LET h     == Len(s) \div 2
             first == DivDigits(r, Take(s, h), mult)
             rest  == DivDigits(first.rem, Drop(s, h), mult)
         IN  [quo |-> first.quo \o rest.quo, rem |-> rest.rem]

\* The quotient and the remainder of a by b > 0: [quo, rem].
BigDiv(a, b) ==
    IF BigCmp(a, b) < 0 THEN [quo |-> <<"0">>, rem |-> a]
    ELSE [DivDigits(StripZeros(Take(a, Len(b) - 1)), Drop(a, Len(b) - 1),
                    AsSeq([c \in 1..9 |-> BigMulSmall(b, c)]))
            EXCEPT !.quo = StripZeros(@)]

\* 1<<63 - 1 and 1<<63.
MaxInt64 == <<"9", "2", "2", "3", "3", "7", "2", "0", "3", "6", "8", "5", "4", "7",
              "7", "5", "8", "0", "7">>

Two63 == <<"9", "2", "2", "3", "3", "7", "2", "0", "3", "6", "8", "5", "4", "7",
           "7", "5", "8", "0", "8">>

\* 1<<53 and 1<<64.
Two53 == <<"9", "0", "0", "7", "1", "9", "9", "2", "5", "4", "7", "4", "0", "9", "9", "2">>

Two64 == <<"1", "8", "4", "4", "6", "7", "4", "4", "0", "7", "3", "7", "0", "9", "5", "5", "1", "6", "1", "6">>

----------------------------------------------------------------------------
(* float64 arithmetic (IEEE 754 binary64, round to nearest even).  A       *)
(* positive float64 is m * 2^e with m odd and below 2^53, and e >= -1074   *)
(* (one form for each value); zero is m = 0, e = 0.  What lies above the   *)
(* largest float64 after rounding is the infinity.                         *)

\* The machine integer of at most 9 digits d.
BigToInt(d) == SumRange([i \in 1..Len(d) |-> DigitVal(d[i]) * (10 ^ (Len(d) - i))], 1, Len(d))

\* The exponent of the largest power of 2 that divides the machine integer
\* v > 0, max at most.
TwoFactor(v, max) ==
    CHOOSE t \in 0..max : v % (2 ^ t) = 0 /\ (t = max \/ v % (2 ^ (t + 1)) # 0)

ZeroFloat == [cls |-> "finite", m |-> <<"0">>, e |-> 0]

Infinity == [cls |-> "inf", m |-> <<"0">>, e |-> 0]

\* The float64 m * 2^e for m whose odd part is below 2^53 and e >= -1074,
\* m made odd: t is the exponent of the power of 2 that divides the last 9
\* digits of m, 9 at most.
RECURSIVE PosFloat(_, _)
PosFloat(m, e) ==
    LET t == TwoFactor(BigToInt(SubSeq(m, IF Len(m) > 9 THEN Len(m) - 8 ELSE 1, Len(m))), 9)
    IN  IF m = <<"0">> THEN ZeroFloat
        ELSE IF t = 0 THEN [cls |-> "finite", m |-> m, e |-> e]
        ELSE PosFloat(BigShift(BigMulSmall(m, 5 ^ t), -t), e + t)

\* The float64 of the quotient quo of a division by b that left the
\* remainder rem, times 2^e: the quotient is rounded to the nearest
\* integer, to the even one of two that are as near, and what reaches
\* 2^1024 = 2^53 * 2^971 is the infinity.
RoundQuotient(d, b, e) ==
    LET half == BigCmp(BigMulSmall(d.rem, 2), b)
        up   == half > 0 \/ (half = 0 /\ DigitVal(d.quo[Len(d.quo)]) % 2 = 1)
    IN  IF e > 971 \/ (e = 971 /\ up /\ BigAdd(d.quo, <<"1">>) = Two53) THEN Infinity
        ELSE PosFloat(IF up THEN BigAdd(d.quo, <<"1">>) ELSE d.quo, e)

\* The float64 nearest to a / (b0 * 2^e0): the quotient is taken by
\* b0 * 2^k, with k the shift that leaves it 53 bits at most, the number of
\* the j with a >= b0 * 2^53 * 2^j.
ScaledQuotient(a, b0, e0) ==
    LET top == BigMul(b0, Two53)
        k   == Cardinality({j \in 0..10 : BigCmp(a, BigMulSmall(top, 2 ^ j)) >= 0})
    IN  RoundQuotient(BigDiv(a, BigMulSmall(b0, 2 ^ k)), BigMulSmall(b0, 2 ^ k), e0 + k)

\* The float64 nearest to n / den, for n > 0 and den > 0.  lg is a lower
\* bound of the binary logarithm of n / den, and e0 an exponent, not below
\* -1074, the exponent of the subnormals, that leaves at least 53 bits to
\* the quotient of n * 2^-e0 by den * 2^e0.
RoundedFloat(n, den) ==
    LET p    == Len(n) - Len(den) - 1
        lg   == IF p >= 0 THEN (p * 33219) \div 10000
                ELSE -(((-p) * 33220 + 9999) \div 10000)
        e0   == IF lg - 52 < -1074 THEN -1074 ELSE lg - 52
    IN  ScaledQuotient(IF e0 < 0 THEN BigMul(n, Pow2(-e0)) ELSE n,
                       IF e0 > 0 THEN BigMul(den, Pow2(e0)) ELSE den, e0)

\* The float64 nearest to n / den, for n >= 0 and den > 0.  An integer below
\* 2^53, and a quotient of short numbers that is an integer over a power of
\* 2, need no rounding: Exact(v, w) for v a multiple of the odd part of w.
Float64Of(n, den) ==
    LET Odd(w) == w \div (2 ^ TwoFactor(w, 30))
        Dyadic(u, t) ==
            [cls |-> "finite", m |-> IntToBig(Odd(u)), e |-> TwoFactor(u, 30) - t]
        Exact(v, w) == Dyadic(v \div Odd(w), TwoFactor(w, 30))
    IN  IF n = <<"0">> THEN ZeroFloat
        ELSE IF den = <<"1">> /\ BigCmp(n, Two53) < 0 THEN PosFloat(n, 0)
        ELSE IF Len(n) <= 9 /\ Len(den) <= 9 /\ BigToInt(n) % Odd(BigToInt(den)) = 0
        THEN Exact(BigToInt(n), BigToInt(den))
        ELSE RoundedFloat(n, den)

\* x * y and x / y of float64 values that are not negative, y not zero.
FloatMul(x, y) ==
    IF x.cls = "inf" \/ y.cls = "inf" THEN Infinity
    ELSE Float64Of(IF x.e + y.e >= 0 THEN BigMul(BigMul(x.m, y.m), Pow2(x.e + y.e))
                   ELSE BigMul(x.m, y.m),
                   IF x.e + y.e >= 0 THEN <<"1">> ELSE Pow2(-(x.e + y.e)))

FloatDiv(x, y) ==
    IF x.cls = "inf" THEN x
    ELSE IF y.cls = "inf" THEN ZeroFloat
    ELSE Float64Of(IF x.e >= y.e THEN BigMul(x.m, Pow2(x.e - y.e)) ELSE x.m,
                   IF x.e >= y.e THEN y.m ELSE BigMul(y.m, Pow2(y.e - x.e)))

\* uint64(x) of a finite positive float64 below 2^64: the integer part.
FloatToUint(x) ==
    IF x.e >= 0 THEN BigMul(x.m, Pow2(x.e)) ELSE BigDiv(x.m, Pow2(-x.e)).quo

----------------------------------------------------------------------------
(* strconv.ParseInt(s, 10, 64)                                             *)

Int64Value(neg, mag) == [type |-> "int64", neg |-> neg /\ mag # <<"0">>, mag |-> mag]

ParseInt(s) ==
    LET signed == s # <<>> /\ s[1] \in {"+", "-"}
        neg    == signed /\ s[1] = "-"
        body   == IF signed THEN Tail(s) ELSE s
        mag    == StripZeros(body)
        limit  == IF neg THEN Two63 ELSE MaxInt64
    IN  IF body = <<>> \/ ~AllDigits(body) THEN [ok |-> FALSE]
        ELSE IF BigCmp(mag, limit) > 0 THEN [ok |-> FALSE]
        ELSE [ok |-> TRUE, val |-> Int64Value(neg, mag)]

----------------------------------------------------------------------------
(* strconv.ParseFloat(s, 64).  A float64 is its sign with the m * 2^e of   *)
(* its magnitude; the infinities and NaN are values of their own.          *)

StripLeadingZeros(d) ==
    IF \A k \in 1..Len(d) : d[k] = "0" THEN <<>> ELSE StripZeros(d)

InfFloat(neg) == [type |-> "float64", cls |-> "inf", neg |-> neg, m |-> <<"0">>, e |-> 0]

NaNFloat == [type |-> "float64", cls |-> "nan", neg |-> FALSE, m |-> <<"0">>, e |-> 0]

\* The float64 nearest to the decimal 0.DIGITS * 10^exp, with the sign neg:
\* the infinity when it rounds above the largest float64, zero when it
\* rounds below half the smallest one.
FiniteFloat(neg, digits, exp) ==
    LET lead == Len(digits) - Len(StripLeadingZeros(digits))
        nz   == StripLeadingZeros(digits)
        sig  == IF nz = <<>> THEN <<>>
                ELSE Take(nz, CHOOSE k \in 1..Len(nz) :
                                  nz[k] # "0" /\ \A j \in (k + 1)..Len(nz) : nz[j] = "0")
        x    == exp - lead
        q    == x - Len(sig)
        Signed(r) == [type |-> "float64", cls |-> r.cls, neg |-> neg, m |-> r.m, e |-> r.e]
    IN  IF sig = <<>> \/ x < -330 THEN Signed(ZeroFloat)
        ELSE IF x > 310 THEN InfFloat(neg)
        ELSE Signed(Float64Of(IF q >= 0 THEN sig \o Zeros(q) ELSE sig,
                              IF q >= 0 THEN <<"1">> ELSE <<"1">> \o Zeros(-q)))

RECURSIVE CommonPrefixLen(_, _)
CommonPrefixLen(s, word) ==
    IF s # <<>> /\ word # <<>> /\ LowerChar(s[1]) = word[1]
    THEN 1 + CommonPrefixLen(Tail(s), Tail(word))
    ELSE 0

\* strconv's special: inf, infinity (signed or not) and nan, in any case.
\* n is the number of characters consumed.
Special(s) ==
    LET signed == s # <<>> /\ s[1] \in {"+", "-"}
        body   == IF signed THEN Tail(s) ELSE s
        n0     == CommonPrefixLen(body, <<"i", "n", "f", "i", "n", "i", "t", "y">>)
        n      == IF 3 < n0 /\ n0 < 8 THEN 3 ELSE n0
    IN  IF n = 3 \/ n = 8
        THEN [ok |-> TRUE, n |-> n + (IF signed THEN 1 ELSE 0),
              val |-> InfFloat(signed /\ s[1] = "-")]
        ELSE IF ~signed /\ CommonPrefixLen(s, <<"n", "a", "n">>) = 3
        THEN [ok |-> TRUE, n |-> 3, val |-> NaNFloat]
        ELSE [ok |-> FALSE]

\* readFloat's mantissa loop over the digits with at most one point: digs
\* are the digits after the leading zeros, dp the position of the point
\* among them (without a point, minus the count of leading zeros).
ScanMantissa(s) ==
    LET n1     == LeadingDigits(s)
        sawdot == n1 < Len(s) /\ s[n1 + 1] = "."
        after  == IF sawdot THEN Drop(s, n1 + 1) ELSE <<>>
        n2     == LeadingDigits(after)
        all    == Take(s, n1) \o Take(after, n2)
        digs   == StripLeadingZeros(all)
        nd1    == Len(StripLeadingZeros(Take(s, n1)))
    IN  [rest |-> Drop(after, n2) \o (IF sawdot THEN <<>> ELSE Drop(s, n1)),
         sawdot |-> sawdot, sawdigits |-> n1 + n2 > 0, digs |-> digs,
         dp |-> IF sawdot THEN nd1 - (IF nd1 = 0 THEN n2 - Len(digs) ELSE 0)
                ELSE Len(digs) - n1]

\* readFloat's exponent value: digits stop counting once e reaches 10000.
RECURSIVE ExpValue(_, _)
ExpValue(digs, e) ==
    IF digs = <<>> THEN e
    ELSE ExpValue(Tail(digs), IF e < 10000 THEN e * 10 + DigitVal(digs[1]) ELSE e)

\* The exponent part at the head of s: [ok, e, rest].
ScanExponent(s) ==
    IF s # <<>> /\ LowerChar(s[1]) = "e"
    THEN LET s1     == Tail(s)
             signed == s1 # <<>> /\ s1[1] \in {"+", "-"}
             esign  == IF signed /\ s1[1] = "-" THEN -1 ELSE 1
             s2     == IF signed THEN Tail(s1) ELSE s1
             n      == LeadingDigits(s2)
         IN  IF n = 0 THEN [ok |-> FALSE]
             ELSE [ok |-> TRUE, e |-> esign * ExpValue(Take(s2, n), 0), rest |-> Drop(s2, n)]
    ELSE [ok |-> TRUE, e |-> 0, rest |-> s]

\* readFloat after the mantissa m of s, and the conversion that follows it.
ReadExponent(s, m) ==
    LET x == ScanExponent(m.rest)
    IN  IF ~m.sawdigits \/ ~x.ok THEN [ok |-> FALSE]
        ELSE [ok |-> TRUE, n |-> Len(s) - Len(x.rest),
              val |-> FiniteFloat(s[1] = "-", m.digs,
                                  (IF m.sawdot THEN m.dp ELSE Len(m.digs)) + x.e)]

\* strconv's readFloat and the conversion that follows it: [ok, n, val],
\* n the number of characters consumed.
ReadFloat(s) == ReadExponent(s, ScanMantissa(IF s # <<>> /\ s[1] \in {"+", "-"} THEN Tail(s) ELSE s))

ParseFloat(s) ==
    LET Whole(r, read) ==
            IF ~r.ok \/ r.n # Len(s) THEN [ok |-> FALSE]
            ELSE IF read /\ r.val.cls = "inf" THEN [ok |-> FALSE]
            ELSE [ok |-> TRUE, val |-> r.val]
    IN  Whole(IF Special(s).ok THEN Special(s) ELSE ReadFloat(s), ~Special(s).ok)

----------------------------------------------------------------------------
(* net/url.ParseRequestURI, as far as parseValue reads its result: whether *)
(* it fails, and the scheme and host it finds (Go 1.21 to 1.23).           *)

\* getScheme, scanning from the 1-based position i: [err, scheme, rest].
RECURSIVE SchemeScan(_, _)
SchemeScan(s, i) ==
    LET none == [err |-> FALSE, scheme |-> <<>>, rest |-> s]
    IN  IF i > Len(s) THEN none
        ELSE IF IsLetter(s[i]) THEN SchemeScan(s, i + 1)
        ELSE IF IsDigit(s[i]) \/ s[i] \in {"+", "-", "."}
        THEN IF i = 1 THEN none ELSE SchemeScan(s, i + 1)
        ELSE IF s[i] = ":"
        THEN IF i = 1 THEN [err |-> TRUE, scheme |-> <<>>, rest |-> <<>>]
             ELSE [err |-> FALSE, scheme |-> Take(s, i - 1), rest |-> Drop(s, i)]
        ELSE none

\* parseHost: the port after the last colon is empty or digits
\* (validOptionalPort), and no character of the host needs escaping (of the
\* alphabet: the space).
ValidHost(host) ==
    /\ LET i    == LastIndexChar(host, ":")
           port == Drop(host, i)
       IN  i # -1 => port = <<>> \/ (port[1] = ":" /\ AllDigits(Tail(port)))
    /\ \A k \in 1..Len(host) : host[k] # " "

ParseRequestURI(s) ==
    LET g      == SchemeScan(s, 1)
        scheme == ToLower(g.scheme)
        rest   == g.rest
        after  == Drop(rest, 2)
        slash  == IndexChar(after, "/")
        auth   == IF slash >= 0 THEN Take(after, slash) ELSE after
    IN  IF (\E k \in 1..Len(s) : IsCTL(s[k])) \/ s = <<>> \/ g.err THEN [ok |-> FALSE]
        ELSE IF ~HasPrefix(rest, <<"/">>)
        THEN IF scheme # <<>>
             THEN [ok |-> TRUE, Scheme |-> scheme, Host |-> <<>>]
             ELSE [ok |-> FALSE]
        ELSE IF scheme # <<>> /\ HasPrefix(rest, <<"/", "/">>)
        THEN IF ValidHost(auth)
             THEN [ok |-> TRUE, Scheme |-> scheme, Host |-> auth]
             ELSE [ok |-> FALSE]
        ELSE [ok |-> TRUE, Scheme |-> scheme, Host |-> <<>>]

----------------------------------------------------------------------------
(* time.ParseDuration.  A Duration is its count of nanoseconds, a sign and *)
(* an unsigned decimal.  The sum of the terms is a uint64 and wraps; a     *)
(* fraction contributes uint64(float64(f) * (float64(unit) / scale)).      *)

DurationValue(neg, mag) ==
    [type |-> "duration", neg |-> neg /\ mag # <<"0">>, mag |-> mag]

\* unitMap, each unit written as mul * 10^pow nanoseconds.
UnitMul(u) == IF u = <<"h">> THEN 36 ELSE IF u = <<"m">> THEN 6 ELSE 1

UnitPow(u) ==
    IF u = <<"h">> THEN 11
    ELSE IF u = <<"m">> THEN 10
    ELSE IF u = <<"s">> THEN 9
    ELSE IF u = <<"m", "s">> THEN 6
    ELSE IF u = <<"u", "s">> THEN 3
    ELSE 0

\* The unit at the head of s runs to the next digit or point.
RECURSIVE UnitLen(_)
UnitLen(s) ==
    IF s = <<>> \/ s[1] = "." \/ IsDigit(s[1]) THEN 0 ELSE 1 + UnitLen(Tail(s))

\* leadingFraction: f, the value of the k digits accepted, and k.  A digit
\* is accepted while x <= (2^63 - 1) / 10 and y = 10 * x + digit <= 2^63, and
\* none is after the first one refused.  y <= 2^63 gives x <= (2^63 - 1) / 10
\* and the prefixes grow, so the accepted digits are the prefixes of value
\* at most 2^63.
LeadingFraction(digs) ==
    LET k == Cardinality({j \in 1..Len(digs) :
                             BigCmp(StripZeros(Take(digs, j)), Two63) <= 0})
    IN  [f |-> StripZeros(Take(digs, k)), k |-> k]

\* scale *= 10, n times from x: every product is rounded to float64, and
\* the infinity stays the infinity.
RECURSIVE ScaleFloat(_, _)
ScaleFloat(x, n) ==
    IF x.cls = "inf" \/ n = 0 THEN x
    ELSE IF n = 1 THEN FloatMul(x, [cls |-> "finite", m |-> <<"5">>, e |-> 1])
    ELSE ScaleFloat(ScaleFloat(x, n \div 2), n - n \div 2)

\* uint64(float64(f) * (float64(unit) / scale)) for the fraction f > 0 of k
\* accepted digits and the unit mul * 10^pow, which is below 2^53.  The
\* scale is 1 multiplied k times by 10 in float64: the products are exact up
\* to 10^22 (5^22 < 2^53) and rounded from there on.  f, the quotient and
\* the product are rounded to float64.
FractionNanos(f, k, mul, pow) ==
    FloatToUint(FloatMul(Float64Of(f, <<"1">>),
                         FloatDiv(PosFloat(BigShift(IntToBig(mul), pow), 0),
                                  ScaleFloat(PosFloat(<<"1">> \o Zeros(IF k <= 22 THEN k ELSE 22), 0),
                                             IF k <= 22 THEN 0 ELSE k - 22))))

\* The loop of ParseDuration over the terms number-unit of s, d the sum of
\* the terms before: [ok, d].
RECURSIVE DurationTerms(_, _)
DurationTerms(s, d) ==
    IF s = <<>> THEN [ok |-> TRUE, d |-> d]
    ELSE LET nint   == LeadingDigits(s)
             v      == StripZeros(Take(s, nint))
             s1     == Drop(s, nint)
             hasdot == s1 # <<>> /\ s1[1] = "."
             s2     == IF hasdot THEN Tail(s1) ELSE s1
             nfrac  == IF hasdot THEN LeadingDigits(s2) ELSE 0
             fr     == LeadingFraction(Take(s2, nfrac))
             s3     == Drop(s2, nfrac)
             ulen   == UnitLen(s3)
             u      == Take(s3, ulen)
             whole  == BigShift(BigMulSmall(v, UnitMul(u)), UnitPow(u))
             Wrap(x) == IF BigCmp(x, Two64) >= 0 THEN BigSub(x, Two64) ELSE x
             Sum(term, sum) ==
                 IF BigCmp(whole, Two63) > 0 \/ BigCmp(term, Two63) > 0
                    \/ BigCmp(sum, Two63) > 0
                 THEN [ok |-> FALSE]
                 ELSE DurationTerms(Drop(s3, ulen), sum)
             Add(term) == Sum(term, Wrap(BigAdd(d, term)))
         IN  IF ~(s[1] = "." \/ IsDigit(s[1])) THEN [ok |-> FALSE]
             ELSE IF BigCmp(v, Two63) > 0 THEN [ok |-> FALSE]
             ELSE IF nint = 0 /\ nfrac = 0 THEN [ok |-> FALSE]
             ELSE IF ulen = 0
                     \/ u \notin {<<"n", "s">>, <<"u", "s">>, <<"m", "s">>, <<"s">>, <<"m">>, <<"h">>}
             THEN [ok |-> FALSE]
             ELSE Add(IF fr.f # <<"0">>
                      THEN BigAdd(whole, FractionNanos(fr.f, fr.k, UnitMul(u), UnitPow(u)))
                      ELSE whole)

ParseDuration(s) ==
    LET signed == s # <<>> /\ s[1] \in {"+", "-"}
        neg    == signed /\ s[1] = "-"
        body   == IF signed THEN Tail(s) ELSE s
        Terms(t) ==
            IF body = <<"0">> THEN [ok |-> TRUE, val |-> DurationValue(FALSE, <<"0">>)]
            ELSE IF body = <<>> \/ ~t.ok THEN [ok |-> FALSE]
            ELSE IF ~neg /\ BigCmp(t.d, MaxInt64) > 0 THEN [ok |-> FALSE]
            ELSE [ok |-> TRUE, val |-> DurationValue(neg, t.d)]
    IN  Terms(DurationTerms(body, <<"0">>))

----------------------------------------------------------------------------
(* Kinds, declarations and errors (types.go)                               *)

KindString == "string"

KindInteger == "integer"

KindFloat == "float"

KindBoolean == "boolean"

KindURL == "url"

KindDuration == "duration"

\* A Field is [Key, Kind, Required, Default, Description, AllowedValues]:
\* Key, Kind and Description plain strings, Default a string of characters,
\* AllowedValues a sequence of such strings.

\* A ValidationError.  Its Reason is the format of the message and the
\* strings formatted into it.
ValidationError(key, fmt, with) == [Key |-> key, Reason |-> [fmt |-> fmt, with |-> with]]

StringValue(s) == [type |-> "string", s |-> s]

BoolValue(b) == [type |-> "bool", b |-> b]

----------------------------------------------------------------------------
(* parseValue                                                              *)

\* A variant of ParseBool that compares the trimmed value as it is spelled.
ParseBoolExact(raw) ==
    LET n == TrimSpace(raw)
    IN  IF n \in {<<"t", "r", "u", "e">>, <<"1">>, <<"y", "e", "s">>}
        THEN [ok |-> TRUE, val |-> BoolValue(TRUE)]
        ELSE IF n \in {<<"f", "a", "l", "s", "e">>, <<"0">>, <<"n", "o">>}
        THEN [ok |-> TRUE, val |-> BoolValue(FALSE)]
        ELSE [ok |-> FALSE]

ParseBool(raw) ==
    LET n == ToLower(TrimSpace(raw))
    IN  IF n \in {<<"t", "r", "u", "e">>, <<"1">>, <<"y", "e", "s">>}
        THEN [ok |-> TRUE, val |-> BoolValue(TRUE)]
        ELSE IF n \in {<<"f", "a", "l", "s", "e">>, <<"0">>, <<"n", "o">>}
        THEN [ok |-> TRUE, val |-> BoolValue(FALSE)]
        ELSE [ok |-> FALSE]

ParseURL(raw) ==
    LET trimmed == TrimSpace(raw)
        u       == ParseRequestURI(trimmed)
    IN  IF ~u.ok \/ u.Scheme = <<>> \/ u.Host = <<>> THEN [ok |-> FALSE]
        ELSE [ok |-> TRUE, val |-> StringValue(trimmed)]

\* [ok |-> TRUE, val] or [ok |-> FALSE, err].
parseValue(key, kind, raw) ==
    LET fail(fmt) == [ok |-> FALSE, err |-> ValidationError(key, fmt, <<Quote(raw)>>)]
        try(r, fmt) == IF r.ok THEN [ok |-> TRUE, val |-> r.val] ELSE fail(fmt)
    IN  CASE kind = KindString -> [ok |-> TRUE, val |-> StringValue(raw)]
          [] kind = KindInteger ->
                try(ParseInt(TrimSpace(raw)), "cannot parse %q as an integer")
          [] kind = KindFloat ->
                try(ParseFloat(TrimSpace(raw)), "cannot parse %q as a float")
          [] kind = KindBoolean ->
                try(ParseBool(raw),
                    "cannot parse %q as a boolean; accepted values are true, false, 1, 0, yes, no")
          [] kind = KindURL ->
                try(ParseURL(raw), "cannot parse %q as an absolute URL with scheme and host")
          [] kind = KindDuration ->
                try(ParseDuration(TrimSpace(raw)),
                    "cannot parse %q as a duration; use Go duration syntax such as 5s, 1m30s, or 2h")
          [] OTHER ->
                [ok |-> FALSE, err |-> ValidationError(key, "unknown kind %q", <<Quote(<<kind>>)>>)]

----------------------------------------------------------------------------
(* The declarations and input maps explored                                *)

MaxFields == 2

Keys == {"A", "B"}

sEmpty == <<>>

sOne == <<"1">>

sPlus7 == <<"+", "7">>

sNo == <<"N", "o">>

sLowerNo == <<"n", "o">>

sFloat == <<"1", ".", "5">>

sTwoMin == <<"2", "m">>

sPadTwoMin == <<" ", "2", "m">>

sURL == <<"a", ":", "/", "/", "b">>

sPadURL == <<"a", ":", "/", "/", "b", " ">>

Template(kind, required, default, allowed) ==
    [Kind |-> kind, Required |-> required, Default |-> default,
     Description |-> IF required THEN "needed" ELSE "", AllowedValues |-> allowed]

TemplatesA ==
    { Template("", FALSE, sEmpty, <<>>),
      Template(KindString, TRUE, sEmpty, <<sOne, sPadURL>>),
      Template(KindString, FALSE, sNo, <<sOne>>),
      Template(KindInteger, TRUE, sEmpty, <<>>),
      Template(KindInteger, FALSE, sEmpty, <<>>),
      Template(KindInteger, FALSE, sPlus7, <<>>),
      Template(KindInteger, FALSE, sOne, <<sOne, sPadTwoMin>>),
      Template(KindInteger, FALSE, sNo, <<>>),
      Template(KindFloat, TRUE, sFloat, <<>>),
      Template(KindFloat, FALSE, sEmpty, <<>>),
      Template(KindBoolean, FALSE, sNo, <<sLowerNo>>),
      Template(KindBoolean, FALSE, sEmpty, <<>>),
      Template(KindURL, TRUE, sEmpty, <<>>),
      Template(KindURL, FALSE, sEmpty, <<>>),
      Template(KindDuration, FALSE, sTwoMin, <<sTwoMin>>),
      Template(KindDuration, FALSE, sEmpty, <<>>),
      Template("bogus", FALSE, sOne, <<>>) }

TemplatesB ==
    { Template(KindInteger, TRUE, sEmpty, <<>>),
      Template(KindInteger, FALSE, sPlus7, <<>>),
      Template(KindBoolean, FALSE, sNo, <<>>),
      Template(KindURL, TRUE, sEmpty, <<>>),
      Template(KindDuration, FALSE, sTwoMin, <<>>) }

WithKey(key, t) ==
    [Key |-> key, Kind |-> t.Kind, Required |-> t.Required, Default |-> t.Default,
     Description |-> t.Description, AllowedValues |-> t.AllowedValues]

FieldChoices ==
    {WithKey("A", t) : t \in TemplatesA} \cup {WithKey("B", t) : t \in TemplatesB}

FieldLists == UNION {[1..n -> FieldChoices] : n \in 0..MaxFields}

EnvValues(key) ==
    IF key = "A" THEN {sEmpty, sOne, sPadTwoMin, sPadURL} ELSE {sOne}

EnvMaps ==
    UNION {{e \in [D -> UNION {EnvValues(k) : k \in Keys}] : \A k \in D : e[k] \in EnvValues(k)}
           : D \in SUBSET Keys}

----------------------------------------------------------------------------
(* State                                                                   *)

VARIABLES
    fields,     \* Validator.fields, the declarations given to New
    env,        \* the input map of the ValidateMap call
    ctx,        \* the call's context: done once cancelled, at the loop
                \* index at which that happened (0: before the call)
    pc,         \* "idle" before the call, "loop" inside it, "done" after
    idx,        \* the position of the loop over v.fields, from 1
    errs,       \* the local errs of ValidateMap
    values,     \* the local values of ValidateMap
    ret,        \* the pair (result, err) ValidateMap returned
    got,        \* the last accessor called on the Result, and its outcome
    passes      \* the locals of each of the ValidateMap calls that run
                \* concurrently on the Validator, by call

vars == <<fields, env, ctx, pc, idx, errs, values, ret, got, passes>>

EmptyMap == <<>>

\* m[key] = v
MapSet(m, key, v) == [k \in DOMAIN m \cup {key} |-> IF k = key THEN v ELSE m[k]]

NilResult == [nil |-> TRUE, values |-> EmptyMap]

NilError == [kind |-> "nil", errs |-> <<>>]

NotReturned == [returned |-> FALSE, result |-> NilResult, err |-> NilError]

Returned(result, err) == [returned |-> TRUE, result |-> result, err |-> err]

NoAccess == [getter |-> "", key |-> ""]

MaxPasses == 2

Passes == 1..MaxPasses

\* The locals of a call that has not started.
IdlePass ==
    [pc |-> "idle", env |-> EmptyMap, idx |-> 1, errs |-> <<>>, values |-> EmptyMap,
     ret |-> NotReturned]

NoPasses == [c \in Passes |-> IdlePass]

----------------------------------------------------------------------------
(* Validator.ValidateMap                                                   *)

\* kind := f.Kind; if kind == "" { kind = KindString }
ResolveKind(f) == IF f.Kind = "" THEN KindString ELSE f.Kind

\* A variant of Provided in which a key present with an empty value counts
\* as given.
ProvidedPresent(e, key) == key \in DOMAIN e

\* raw, present := env[f.Key]; the key counts as given when it is present
\* with a non-empty value.
Provided(e, key) == key \in DOMAIN e /\ e[key] # <<>>

\* A variant of MissingRequired that asks for every key without a default.
MissingWithoutDefault(f, e) == ~Provided(e, f.Key) /\ f.Default = <<>>

\* The failure of a field that is not given: required and without default.
MissingRequired(f, e) == ~Provided(e, f.Key) /\ f.Required /\ f.Default = <<>>

\* A variant of ResolveRaw in which a set default is used even when the
\* key is given.
ResolveRawDefaultFirst(f, e) ==
    IF f.Default # <<>> THEN f.Default
    ELSE IF Provided(e, f.Key) THEN e[f.Key] ELSE f.Default

\* The raw value of a field that is given, or has its default substituted.
ResolveRaw(f, e) == IF Provided(e, f.Key) THEN e[f.Key] ELSE f.Default

\* A variant of AllowedOk that compares without case and surrounding space.
AllowedOkFolded(f, raw) ==
    Len(f.AllowedValues) > 0 =>
        \E k \in 1..Len(f.AllowedValues) :
            ToLower(TrimSpace(raw)) = ToLower(TrimSpace(f.AllowedValues[k]))

\* The allowed-values check: exact equality with one entry.
AllowedOk(f, raw) ==
    Len(f.AllowedValues) > 0 => \E k \in 1..Len(f.AllowedValues) : raw = f.AllowedValues[k]

\* One iteration of the loop for declaration f, after the cancellation
\* check: [ok |-> TRUE, val] or [ok |-> FALSE, err].
EvalField(f, e) ==
    LET raw == ResolveRaw(f, e)
    IN  IF MissingRequired(f, e)
        THEN [ok |-> FALSE,
              err |-> ValidationError(f.Key, "required variable is missing or empty", <<>>)]
        ELSE IF ~AllowedOk(f, raw)
        THEN [ok |-> FALSE,
              err |-> ValidationError(f.Key, "value %q is not one of the allowed values: %s",
                                      <<Quote(raw), Join(f.AllowedValues)>>)]
        ELSE parseValue(f.Key, ResolveKind(f), raw)

\* A variant of Done that looks at the context only once a field has been
\* evaluated.
DoneAfterFirst(c) == c.done /\ c.at > 0

\* case <-ctx.Done(): whether the context is cancelled.
Done(c) == c.done

\* A variant of AppendErr that keeps only the first failure.
AppendErrFirstOnly(es, e) == IF es = <<>> THEN <<e>> ELSE es

\* errs = append(errs, e)
AppendErr(es, e) == Append(es, e)

\* A variant of StoreValue that leaves an empty string out of the map.
StoreValueNonEmpty(vals, key, v) ==
    IF v.type = "string" /\ v.s = <<>> THEN vals ELSE MapSet(vals, key, v)

\* values[f.Key] = parsed
StoreValue(vals, key, v) == MapSet(vals, key, v)

\* A variant of ReturnValue that hands back the values collected so far
\* together with the batch.
ReturnValuePartial(es, vals) ==
    Returned([nil |-> FALSE, values |-> vals],
             IF Len(es) > 0 THEN [kind |-> "ValidationErrors", errs |-> es] ELSE NilError)

\* The two return statements that end ValidateMap.
ReturnValue(es, vals) ==
    IF Len(es) > 0
    THEN Returned(NilResult, [kind |-> "ValidationErrors", errs |-> es])
    ELSE Returned([nil |-> FALSE, values |-> vals], NilError)

\* A variant of CancelledReturn that hands back the failures collected so
\* far, when there are some, in place of the cancellation.
CancelledReturnBatch ==
    IF errs # <<>>
    THEN Returned(NilResult, [kind |-> "ValidationErrors", errs |-> errs])
    ELSE Returned(NilResult, [kind |-> "context.Canceled", errs |-> <<>>])

\* return nil, ctx.Err()
CancelledReturn == Returned(NilResult, [kind |-> "context.Canceled", errs |-> <<>>])

Init ==
    /\ fields \in FieldLists
    /\ env = EmptyMap
    /\ ctx = [done |-> FALSE, at |-> 0]
    /\ pc = "idle"
    /\ idx = 1
    /\ errs = <<>>
    /\ values = EmptyMap
    /\ ret = NotReturned
    /\ got = NoAccess
    /\ passes = NoPasses

\* v.ValidateMap(ctx, env) is called, with a context that is or is not
\* cancelled already, and allocates errs and values.
Call(e, cancelled) ==
    /\ pc = "idle"
    /\ pc' = "loop"
    /\ env' = e
    /\ ctx' = [done |-> cancelled, at |-> 0]
    /\ idx' = 1
    /\ errs' = <<>>
    /\ values' = EmptyMap
    /\ UNCHANGED <<passes, fields, ret, got>>

\* The context is cancelled while the call runs.
Cancel ==
    /\ pc = "loop"
    /\ ~ctx.done
    /\ ctx' = [done |-> TRUE, at |-> idx]
    /\ UNCHANGED <<passes, fields, env, pc, idx, errs, values, ret, got>>

\* One iteration of the loop: the cancellation check, then the field.
Step ==
    /\ pc = "loop"
    /\ idx <= Len(fields)
    /\ IF Done(ctx)
       THEN /\ ret' = CancelledReturn
            /\ pc' = "done"
            /\ UNCHANGED <<idx, errs, values>>
       ELSE LET f == fields[idx]
                r == EvalField(f, env)
            IN  /\ errs' = IF r.ok THEN errs ELSE AppendErr(errs, r.err)
                /\ values' = IF r.ok THEN StoreValue(values, f.Key, r.val) ELSE values
                /\ idx' = idx + 1
                /\ UNCHANGED <<pc, ret>>
    /\ UNCHANGED <<passes, fields, env, ctx, got>>

\* The loop is over: the batch if there are errors, the Result otherwise.
Return ==
    /\ pc = "loop"
    /\ idx > Len(fields)
    /\ ret' = ReturnValue(errs, values)
    /\ pc' = "done"
    /\ UNCHANGED <<passes, fields, env, ctx, idx, errs, values, got>>

----------------------------------------------------------------------------
(* The accessors of a Result (types.go) and DurationResult                 *)

Panic(fmt, key) == [panic |-> TRUE, msg |-> [fmt |-> fmt, with |-> <<Quote(<<key>>)>>]]

Value(v) == [panic |-> FALSE, ok |-> TRUE, val |-> v]

NotDeclared == "env-validator: key %q was not declared in the validator"

\* v, ok := r.values[key]; the two panics of a typed getter.
TypedGet(vals, key, type, wrongKind) ==
    IF key \notin DOMAIN vals THEN Panic(NotDeclared, key)
    ELSE IF vals[key].type # type THEN Panic(wrongKind, key)
    ELSE Value(vals[key])

String(vals, key) ==
    TypedGet(vals, key, "string", "env-validator: key %q is not a string field")

Integer(vals, key) ==
    TypedGet(vals, key, "int64", "env-validator: key %q is not an integer field")

Float(vals, key) ==
    TypedGet(vals, key, "float64", "env-validator: key %q is not a float field")

Boolean(vals, key) ==
    TypedGet(vals, key, "bool", "env-validator: key %q is not a boolean field")

\* Duration returns the stored value as an interface{}, whatever its type.
Duration(vals, key) ==
    IF key \notin DOMAIN vals THEN Panic(NotDeclared, key) ELSE Value(vals[key])

Raw(vals, key) ==
    IF key \in DOMAIN vals THEN Value(vals[key])
    ELSE [panic |-> FALSE, ok |-> FALSE, val |-> [type |-> "nil"]]

DurationResult(vals, key) ==
    LET r == Raw(vals, key)
    IN  IF ~r.ok THEN Panic(NotDeclared, key)
        ELSE IF r.val.type # "duration"
        THEN Panic("env-validator: key %q is not a duration field", key)
        ELSE Value(r.val)

Getters == {"String", "Integer", "Float", "Boolean", "Duration", "Raw", "DurationResult"}

Outcome(getter, vals, key) ==
    CASE getter = "String" -> String(vals, key)
      [] getter = "Integer" -> Integer(vals, key)
      [] getter = "Float" -> Float(vals, key)
      [] getter = "Boolean" -> Boolean(vals, key)
      [] getter = "Duration" -> Duration(vals, key)
      [] getter = "Raw" -> Raw(vals, key)
      [] getter = "DurationResult" -> DurationResult(vals, key)

\* The caller reads the Result it was returned.
Access(getter, key) ==
    /\ pc = "done"
    /\ ~ret.result.nil
    /\ got = NoAccess
    /\ got' = [getter |-> getter, key |-> key,
               out |-> Outcome(getter, ret.result.values, key)]
    /\ UNCHANGED <<passes, fields, env, ctx, pc, idx, errs, values, ret>>

Next ==
    \/ \E e \in EnvMaps, c \in BOOLEAN : Call(e, c)
    \/ Cancel
    \/ Step
    \/ Return
    \/ \E g \in Getters, k \in Keys : Access(g, k)

Spec == Init /\ [][Next]_vars

----------------------------------------------------------------------------
(* Validator.Schema (schema.go)                                            *)

\* A []string: nil, or a slice with its items.
NilSlice == [nil |-> TRUE, items |-> <<>>]

EmptySlice == [nil |-> FALSE, items |-> <<>>]

\* f.AllowedValues of a declaration: nil when none were declared.
FieldAllowed(f) ==
    IF f.AllowedValues = <<>> THEN NilSlice ELSE [nil |-> FALSE, items |-> f.AllowedValues]

\* A variant of NormalizeAllowed that hands the slice on as it is.
KeepAllowed(a) == a

\* allowed := f.AllowedValues; if allowed == nil { allowed = []string{} }
NormalizeAllowed(a) == IF a.nil THEN EmptySlice ELSE a

\* out[i] = FieldSchema{...}
FieldSchema(f) ==
    [Key           |-> f.Key,
     Kind          |-> ResolveKind(f),
     Required      |-> f.Required,
     Default       |-> f.Default,
     Description   |-> f.Description,
     AllowedValues |-> NormalizeAllowed(FieldAllowed(f))]

\* The loop of Schema over v.fields.
Schema(fs) == [i \in 1..Len(fs) |-> FieldSchema(fs[i])]

\* v.Schema() is called, at any moment, and its output is kept.
CallSchema ==
    /\ got' = [getter |-> "Schema", key |-> "", out |-> Value(Schema(fields))]
    /\ got' # got
    /\ UNCHANGED <<passes, fields, env, ctx, pc, idx, errs, values, ret>>

\* The caller is done with what ValidateMap returned and may call again.
Again ==
    /\ pc = "done"
    /\ pc' = "idle"
    /\ env' = EmptyMap
    /\ ctx' = [done |-> FALSE, at |-> 0]
    /\ idx' = 1
    /\ errs' = <<>>
    /\ values' = EmptyMap
    /\ ret' = NotReturned
    /\ UNCHANGED <<passes, fields, got>>

\* Schema calls before, during, between and after ValidateMap calls.
NextSchema ==
    \/ \E e \in EnvMaps : Call(e, FALSE)
    \/ Step
    \/ Return
    \/ Again
    \/ CallSchema

SpecSchema == Init /\ [][NextSchema]_vars

----------------------------------------------------------------------------
(* ValidateMap on one boolean declaration, over many raw values            *)

MaxBoolLen == 3

\* The characters of the short raw values.
BoolChars == {"y", "Y", "e", "E", "s", "S", "n", "N", "o", "O", "1", "0", " ", "\t"}

\* Every string of at most n characters of chars.
StringsUpTo(chars, n) == UNION {[1..k -> chars] : k \in 0..n}

UpperOf(c) ==
    IF IsLower(c) THEN UpperChars[CHOOSE k \in 1..Len(LowerChars) : LowerChars[k] = c]
    ELSE c

\* Every spelling of the word w in upper and lower case.
RECURSIVE Spellings(_)
Spellings(w) ==
    IF w = <<>> THEN {<<>>}
    ELSE {<<c>> \o t : c \in {w[1], UpperOf(w[1])}, t \in Spellings(Tail(w))}

\* Words that are close to an accepted one.
OtherWords ==
    {<<"t", "r", "u">>, <<"t">>, <<"f">>, <<"y">>, <<"t", "r", "u", "e", "e">>,
     <<"t", " ", "r", "u", "e">>, <<"f", "a", "l", "s">>, <<"o", "n">>,
     <<"o", "f", "f">>, <<"2">>, <<"-", "1">>, <<"1", ".", "0">>,
     <<"t", "r", "u", "e", "1">>, <<"n", "o", "n", "e">>, <<"y", "e", "s", "n", "o">>}

Paddings == {<<>>, <<" ">>, <<"\t", " ">>}

LongBoolInputs ==
    {l \o w \o r : l \in Paddings, r \in Paddings,
                   w \in UNION {Spellings(x) : x \in {<<"t", "r", "u", "e">>,
                                                      <<"f", "a", "l", "s", "e">>}}
                         \cup OtherWords}

BoolInputs == StringsUpTo(BoolChars, MaxBoolLen) \cup LongBoolInputs

BooleanField == WithKey("A", Template(KindBoolean, FALSE, sEmpty, <<>>))

InitBoolean ==
    /\ fields = <<BooleanField>>
    /\ env = EmptyMap
    /\ ctx = [done |-> FALSE, at |-> 0]
    /\ pc = "idle"
    /\ idx = 1
    /\ errs = <<>>
    /\ values = EmptyMap
    /\ ret = NotReturned
    /\ got = NoAccess
    /\ passes = NoPasses

NextBoolean ==
    \/ pc = "idle" /\ \E raw \in BoolInputs : Call(MapSet(EmptyMap, "A", raw), FALSE)
    \/ Step
    \/ Return

SpecBoolean == InitBoolean /\ [][NextBoolean]_vars

----------------------------------------------------------------------------
(* Concurrent ValidateMap calls on one Validator                           *)

\* The declarations of the Validator the concurrent calls share.
ConcFieldChoices ==
    {WithKey("A", Template(KindInteger, TRUE, sEmpty, <<>>)),
     WithKey("A", Template(KindString, FALSE, sNo, <<sOne>>)),
     WithKey("A", Template(KindDuration, FALSE, sEmpty, <<>>)),
     WithKey("B", Template(KindInteger, FALSE, sPlus7, <<>>)),
     WithKey("B", Template(KindURL, TRUE, sEmpty, <<>>))}

ConcFieldLists == UNION {[1..n -> ConcFieldChoices] : n \in 0..MaxFields}

\* The input maps of the concurrent calls.
ConcEnvMaps ==
    {EmptyMap,
     MapSet(EmptyMap, "A", sOne),
     MapSet(MapSet(EmptyMap, "A", sPadTwoMin), "B", sOne)}

\* The locals of a call that has just been entered with the input map e.
StartPass(e) ==
    [pc |-> "loop", env |-> e, idx |-> 1, errs |-> <<>>, values |-> EmptyMap,
     ret |-> NotReturned]

\* A variant of ErrsOf in which errs is one variable of the package, here
\* the one of the first call, and not a local of each call.
ErrsOfFirst(ps, c) == ps[1].errs

\* var errs ValidationErrors: the errs a call appends to is its own local.
ErrsOf(ps, c) == ps[c].errs

\* values := make(...): the values a call writes to is its own local.
ValuesIn(ps, c) == ps[c].values

InitConcurrent ==
    /\ fields \in ConcFieldLists
    /\ env = EmptyMap
    /\ ctx = [done |-> FALSE, at |-> 0]
    /\ pc = "idle"
    /\ idx = 1
    /\ errs = <<>>
    /\ values = EmptyMap
    /\ ret = NotReturned
    /\ got = NoAccess
    /\ passes = NoPasses

\* Call c enters ValidateMap with the input map e and a context that is
\* never cancelled.
PassCall(c, e) ==
    /\ passes[c].pc = "idle"
    /\ passes' = [passes EXCEPT ![c] = StartPass(e)]
    /\ UNCHANGED <<fields, env, ctx, pc, idx, errs, values, ret, got>>

\* One iteration of the loop of call c.
PassStep(c) ==
    /\ passes[c].pc = "loop"
    /\ passes[c].idx <= Len(fields)
    /\ LET p == passes[c]
           f == fields[p.idx]
           r == EvalField(f, p.env)
       IN  passes' = [passes EXCEPT ![c] =
                [p EXCEPT !.errs = IF r.ok THEN ErrsOf(passes, c)
                                   ELSE AppendErr(ErrsOf(passes, c), r.err),
                          !.values = IF r.ok THEN StoreValue(ValuesIn(passes, c), f.Key, r.val)
                                     ELSE ValuesIn(passes, c),
                          !.idx = p.idx + 1]]
    /\ UNCHANGED <<fields, env, ctx, pc, idx, errs, values, ret, got>>

\* The loop of call c is over, and the call returns.
PassReturn(c) ==
    /\ passes[c].pc = "loop"
    /\ passes[c].idx > Len(fields)
    /\ passes' = [passes EXCEPT ![c] =
            [passes[c] EXCEPT !.ret = ReturnValue(ErrsOf(passes, c), ValuesIn(passes, c)),
                              !.pc = "done"]]
    /\ UNCHANGED <<fields, env, ctx, pc, idx, errs, values, ret, got>>

NextConcurrent ==
    \/ \E c \in Passes, e \in ConcEnvMaps : PassCall(c, e)
    \/ \E c \in Passes : PassStep(c)
    \/ \E c \in Passes : PassReturn(c)

SpecConcurrent == InitConcurrent /\ [][NextConcurrent]_vars

----------------------------------------------------------------------------
(* ValidateMap on declarations that are not required and have no default   *)

\* Declarations of every kind that are not required and have no default:
\* without allowed values, with allowed values, and with allowed values of
\* which the empty string is one; and a required one.
OptionalChoices ==
    {WithKey("A", Template(k, FALSE, sEmpty, <<>>)) :
        k \in {"", KindString, KindInteger, KindFloat, KindBoolean, KindURL, KindDuration}}
    \cup {WithKey("A", Template(k, FALSE, sEmpty, <<sOne>>)) : k \in {KindString, KindInteger}}
    \cup {WithKey("A", Template(k, FALSE, sEmpty, <<sEmpty, sOne>>)) :
            k \in {KindString, KindBoolean}}
    \cup {WithKey("B", Template(KindString, FALSE, sEmpty, <<>>)),
          WithKey("B", Template(KindInteger, FALSE, sEmpty, <<>>)),
          WithKey("B", Template(KindURL, TRUE, sEmpty, <<>>))}

OptionalFieldLists == UNION {[1..n -> OptionalChoices] : n \in 0..MaxFields}

InitOptional ==
    /\ fields \in OptionalFieldLists
    /\ env = EmptyMap
    /\ ctx = [done |-> FALSE, at |-> 0]
    /\ pc = "idle"
    /\ idx = 1
    /\ errs = <<>>
    /\ values = EmptyMap
    /\ ret = NotReturned
    /\ got = NoAccess
    /\ passes = NoPasses

NextOptional ==
    \/ \E e \in EnvMaps : Call(e, FALSE)
    \/ Step
    \/ Return

SpecOptional == InitOptional /\ [][NextOptional]_vars

----------------------------------------------------------------------------
(* Properties                                                              *)

Finished == pc = "done" /\ ret.returned

\* The call ended and its context was never cancelled.
FinishedUncancelled == Finished /\ ~ctx.done

IsResult == Finished /\ ~ret.result.nil

IsBatch == Finished /\ ret.err.kind = "ValidationErrors"

IsCancelled == Finished /\ ret.err.kind = "context.Canceled"

\* Two typed values are the same value of the same type.
SameValue(a, b) == a.type = b.type /\ a = b

Fails(f) == ~EvalField(f, env).ok

\* The failures of the declarations fs against e, in declaration order.
RECURSIVE FailuresOf(_, _)
FailuresOf(fs, e) ==
    IF fs = <<>> THEN <<>>
    ELSE LET r == EvalField(fs[1], e)
         IN  (IF r.ok THEN <<>> ELSE <<r.err>>) \o FailuresOf(Tail(fs), e)

DeclaredKeys == {fields[i].Key : i \in 1..Len(fields)}

FirstDeclaration(key) ==
    CHOOSE i \in 1..Len(fields) :
        fields[i].Key = key /\ \A j \in 1..(i - 1) : fields[j].Key # key

\* C1: a ValidateMap call whose context is never cancelled returns exactly
\* one of a Result and a ValidationErrors batch: the batch if and only if
\* some declared field failed, the Result otherwise.
C1_ResultOrBatch ==
    FinishedUncancelled =>
        /\ ret.result.nil # (ret.err.kind = "nil")
        /\ ret.err.kind \in {"nil", "ValidationErrors"}
        /\ IsBatch <=> \E i \in 1..Len(fields) : Fails(fields[i])
        /\ IsResult <=> \A i \in 1..Len(fields) : ~Fails(fields[i])

\* C1 witness: an uncancelled call over a failing and a succeeding field
\* has returned the batch.
C1_Witness ==
    /\ FinishedUncancelled
    /\ IsBatch
    /\ Len(fields) = 2
    /\ Fails(fields[1])
    /\ ~Fails(fields[2])

\* C2: the batch of an uncancelled call holds one entry per failing
\* declaration and none for a succeeding one, in declaration order; two
\* required fields without defaults that are both missing give 2 entries.
C2_AllFailuresInOrder ==
    FinishedUncancelled =>
        /\ ret.err.errs = FailuresOf(fields, env)
        /\ (/\ Len(fields) = 2
            /\ \A i \in 1..2 : fields[i].Required /\ fields[i].Default = <<>>
                                /\ fields[i].Key \notin DOMAIN env)
           => IsBatch /\ Len(ret.err.errs) = 2

\* C2 witness: a batch of two entries whose first field failed for being
\* required and missing and whose second failed on its own, under an input
\* map that gives the second key only.
C2_Witness ==
    /\ FinishedUncancelled
    /\ IsBatch
    /\ Len(ret.err.errs) = 2
    /\ fields[1].Key = "A" /\ fields[2].Key = "B"
    /\ DOMAIN env = {"B"}
    /\ ret.err.errs[1].Key = "A" /\ ret.err.errs[2].Key = "B"

\* C3 (as claimed): a declaration that is required, has no default and
\* whose key is absent or empty gives a batch with exactly one failure for
\* that key with the reason "required variable is missing or empty".
C3_OneRequiredFailurePerKey ==
    FinishedUncancelled =>
        \A i \in 1..Len(fields) :
            (fields[i].Required /\ fields[i].Default = <<>>
             /\ (fields[i].Key \notin DOMAIN env \/ env[fields[i].Key] = <<>>))
            => /\ IsBatch
               /\ Cardinality({n \in 1..Len(ret.err.errs) :
                      /\ ret.err.errs[n].Key = fields[i].Key
                      /\ ret.err.errs[n].Reason.fmt = "required variable is missing or empty"})
                  = 1

\* C4 (as claimed): in the Result, every declaration with a default whose
\* key is absent or empty has its default, coerced per its kind, under its
\* key, whether it is required or not.
C4_DefaultInResult ==
    IsResult =>
        \A i \in 1..Len(fields) :
            (fields[i].Default # <<>>
             /\ (fields[i].Key \notin DOMAIN env \/ env[fields[i].Key] = <<>>))
            => LET p == parseValue(fields[i].Key, ResolveKind(fields[i]), fields[i].Default)
               IN  /\ fields[i].Key \in DOMAIN ret.result.values
                   /\ p.ok
                   /\ SameValue(ret.result.values[fields[i].Key], p.val)

\* C5: a non-empty input value overrides a default: what is stored for the
\* key is coerced from the input value, and a failure recorded for the key
\* is about the input value; the default plays no part.
C5_InputOverridesDefault ==
    FinishedUncancelled =>
        \A i \in 1..Len(fields) :
            LET key == fields[i].Key
            IN  (fields[i].Default # <<>> /\ key \in DOMAIN env /\ env[key] # <<>>)
                => /\ IsResult =>
                        \E j \in 1..Len(fields) :
                            /\ fields[j].Key = key
                            /\ LET p == parseValue(key, ResolveKind(fields[j]), env[key])
                               IN  p.ok /\ SameValue(ret.result.values[key], p.val)
                   /\ IsBatch =>
                        \A n \in 1..Len(ret.err.errs) :
                            ret.err.errs[n].Key = key
                            => /\ ret.err.errs[n].Reason.fmt
                                    # "required variable is missing or empty"
                               /\ ret.err.errs[n].Reason.fmt # "unknown kind %q"
                                    => ret.err.errs[n].Reason.with[1] = Quote(env[key])

\* C5 witness: a Result holds the value of the input where the default of
\* the one declaration of the key would have given another value.
C5_Witness ==
    /\ FinishedUncancelled
    /\ IsResult
    /\ Len(fields) = 1
    /\ fields[1].Default # <<>>
    /\ fields[1].Key \in DOMAIN env
    /\ env[fields[1].Key] # <<>>
    /\ LET d == parseValue(fields[1].Key, ResolveKind(fields[1]), fields[1].Default)
       IN  d.ok /\ ~SameValue(ret.result.values[fields[1].Key], d.val)

\* The context was cancelled before ValidateMap was called.
PreCancelled == ctx.done /\ ctx.at = 0

\* C6 (as claimed): whatever the declarations, none included, a call with
\* a context cancelled beforehand returns the cancellation error, and
\* neither a Result nor a batch.
C6_PreCancelledAlwaysAborts ==
    (Finished /\ PreCancelled) => IsCancelled /\ ret.result.nil

\* C6 (amended): with at least one declaration a call with a context
\* cancelled beforehand returns the cancellation error, and neither a
\* Result nor a batch; with no declaration it returns an empty Result.
C6_PreCancelledAborts ==
    (Finished /\ PreCancelled) =>
        IF Len(fields) > 0
        THEN IsCancelled /\ ret.result.nil /\ errs = <<>> /\ values = EmptyMap
        ELSE IsResult /\ ret.err.kind = "nil" /\ ret.result.values = EmptyMap

\* C6 witness: a call over two declarations with a context cancelled
\* beforehand has returned the cancellation error.
C6_Witness ==
    /\ Finished
    /\ PreCancelled
    /\ Len(fields) = 2
    /\ IsCancelled

GetterType(getter) ==
    CASE getter = "String" -> "string"
      [] getter = "Integer" -> "int64"
      [] getter = "Float" -> "float64"
      [] getter = "Boolean" -> "bool"
      [] getter = "Duration" -> "duration"

\* C7 (as claimed): each of String, Integer, Float, Boolean and Duration
\* panics with the key-not-declared error on a key that is not in the
\* Result, panics with a wrong-kind error on a key whose value is not of the
\* getter's type, and returns the value only otherwise.
C7_TypedGettersCheck ==
    got.getter \in {"String", "Integer", "Float", "Boolean", "Duration"} =>
        LET vals == ret.result.values
        IN  IF got.key \notin DOMAIN vals
            THEN got.out.panic /\ got.out.msg.fmt = NotDeclared
            ELSE IF vals[got.key].type # GetterType(got.getter)
            THEN got.out.panic /\ got.out.msg.fmt # NotDeclared
            ELSE ~got.out.panic /\ SameValue(got.out.val, vals[got.key])

\* C8 (as claimed): when a key is declared more than once, the value in
\* the Result under that key is the one coerced from its first declaration.
C8_FirstDeclarationWins ==
    IsResult =>
        \A key \in DeclaredKeys :
            LET r == EvalField(fields[FirstDeclaration(key)], env)
            IN  /\ key \in DOMAIN ret.result.values
                /\ r.ok
                /\ SameValue(ret.result.values[key], r.val)

\* C9: for a declaration with allowed values whose raw value, after the
\* default is substituted, equals none of them exactly, the iteration
\* records one failure that lists the allowed values joined by ", ", and
\* coerces nothing; when the raw value equals one of them the iteration
\* goes on to the coercion and ends as the coercion does.
C9_AllowedValuesExact ==
    [][(pc = "loop" /\ idx' = idx + 1 /\ Len(fields[idx].AllowedValues) > 0)
       => LET f       == fields[idx]
              given   == f.Key \in DOMAIN env /\ env[f.Key] # <<>>
              raw     == IF given THEN env[f.Key] ELSE f.Default
              missing == ~given /\ f.Required /\ f.Default = <<>>
              p       == parseValue(f.Key, ResolveKind(f), raw)
          IN  ~missing =>
                IF \E k \in 1..Len(f.AllowedValues) : f.AllowedValues[k] = raw
                THEN IF p.ok
                     THEN /\ errs' = errs
                          /\ f.Key \in DOMAIN values'
                          /\ SameValue(values'[f.Key], p.val)
                     ELSE errs' = Append(errs, p.err) /\ values' = values
                ELSE /\ values' = values
                     /\ Len(errs') = Len(errs) + 1
                     /\ errs'[Len(errs')].Key = f.Key
                     /\ errs'[Len(errs')].Reason.fmt
                            = "value %q is not one of the allowed values: %s"
                     /\ errs'[Len(errs')].Reason.with = <<Quote(raw), Join(f.AllowedValues)>>
                     /\ SubSeq(errs', 1, Len(errs)) = errs
      ]_vars

\* C9 witness: the last failure recorded is of a raw value that is not
\* allowed although, trimmed, it is one of the allowed values and the
\* field's kind would have accepted it.
C9_Witness ==
    /\ pc = "loop"
    /\ idx = 2
    /\ Len(errs) = 1
    /\ errs[1].Reason.fmt = "value %q is not one of the allowed values: %s"
    /\ LET f   == fields[1]
           raw == env[f.Key]
       IN  /\ f.Key \in DOMAIN env
           /\ \E k \in 1..Len(f.AllowedValues) : f.AllowedValues[k] = TrimSpace(raw)
           /\ parseValue(f.Key, ResolveKind(f), raw).ok

\* C10: the keys of a returned Result are exactly the declared keys, also
\* when the input map has other keys.
C10_ResultKeysAreDeclaredKeys ==
    IsResult => DOMAIN ret.result.values = DeclaredKeys

\* C10 witness: a Result with the single declared key A, returned for an
\* input map that has the undeclared key B too.
C10_Witness ==
    /\ IsResult
    /\ Len(fields) = 1
    /\ DOMAIN env = {"A", "B"}
    /\ DOMAIN ret.result.values = {"A"}

\* C11: Schema returns one descriptor per declaration, in declaration
\* order, with the declaration's key, required flag, default and
\* description, the kind "string" for an unset kind, and a non-nil empty
\* sequence for absent allowed values; it does not fail, and whatever
\* ValidateMap calls were made, with whatever input maps, its output is the
\* one the declarations alone determine.
C11_SchemaFromDeclarations ==
    got.getter = "Schema" =>
        /\ ~got.out.panic
        /\ DOMAIN got.out.val = 1..Len(fields)
        /\ \A i \in 1..Len(fields) :
            LET d == got.out.val[i]
                f == fields[i]
            IN  /\ d.Key = f.Key
                /\ d.Kind = (IF f.Kind = "" THEN "string" ELSE f.Kind)
                /\ d.Required = f.Required
                /\ d.Default = f.Default
                /\ d.Description = f.Description
                /\ ~d.AllowedValues.nil
                /\ d.AllowedValues.items = f.AllowedValues

\* C11 witness: Schema was called after a ValidateMap call with a non-empty
\* input map returned, on two declarations of which the first has no kind
\* and no allowed values and the second has both.
C11_Witness ==
    /\ got.getter = "Schema"
    /\ pc = "done"
    /\ ret.returned
    /\ DOMAIN env = {"A", "B"}
    /\ Len(fields) = 2
    /\ fields[1].Kind = "" /\ fields[1].AllowedValues = <<>>
    /\ fields[2].Kind # "" /\ fields[2].AllowedValues # <<>>
    /\ Len(got.out.val) = 2

\* The values map after the declarations fs were evaluated against e,
\* starting from vals.
RECURSIVE ValuesOf(_, _, _)
ValuesOf(fs, e, vals) ==
    IF fs = <<>> THEN vals
    ELSE LET r == EvalField(fs[1], e)
         IN  ValuesOf(Tail(fs), e,
                      IF r.ok THEN StoreValue(vals, fs[1].Key, r.val) ELSE vals)

\* What ValidateMap returns for the declarations fs and the input map e when
\* it runs to its end on its own.
RunAlone(fs, e) == ReturnValue(FailuresOf(fs, e), ValuesOf(fs, e, EmptyMap))

\* The map e without the key k.
Without(e, k) == [x \in DOMAIN e \ {k} |-> e[x]]

\* C12: a key that is absent and a key that is mapped to "" cannot be told
\* apart: for a call that returned with key k absent or empty, ValidateMap
\* returns that same outcome (the same Result values or the same ordered
\* batch) on the map with k removed and on the map with k mapped to "".
C12_AbsentSameAsEmpty ==
    FinishedUncancelled =>
        \A k \in Keys :
            (k \notin DOMAIN env \/ env[k] = <<>>)
            => /\ ret = RunAlone(fields, Without(env, k))
               /\ ret = RunAlone(fields, MapSet(env, k, <<>>))

\* C12 witness: a call whose input map gives A as "" returned a Result for
\* a declaration of A that is required and has a default.
C12_Witness ==
    /\ FinishedUncancelled
    /\ IsResult
    /\ "A" \in DOMAIN env
    /\ env["A"] = <<>>
    /\ Len(fields) = 1
    /\ fields[1].Key = "A" /\ fields[1].Required /\ fields[1].Default # <<>>

\* The string s is one of the words, in any case, between any white space.
SpellsOneOf(s, words) ==
    \E i \in 1..(Len(s) + 1), j \in 0..Len(s) :
        /\ i <= j
        /\ \A k \in 1..(i - 1) : s[k] \in {" ", "\t"}
        /\ \A k \in (j + 1)..Len(s) : s[k] \in {" ", "\t"}
        /\ \E w \in words : SubSeq(s, i, j) \in Spellings(w)

\* C13: on a boolean field, a raw value that spells true, 1 or yes, in any
\* case and between any white space, gives true; one that spells false, 0
\* or no gives false; every other raw value, the empty one included, gives
\* a failure whose reason enumerates the accepted tokens.
C13_BooleanTokens ==
    (Finished /\ Len(fields) = 1 /\ fields[1].Kind = "boolean"
              /\ fields[1].Default = <<>> /\ fields[1].AllowedValues = <<>>
              /\ fields[1].Key \in DOMAIN env)
    => LET key == fields[1].Key
           raw == env[key]
       IN  IF SpellsOneOf(raw, {<<"t", "r", "u", "e">>, <<"1">>, <<"y", "e", "s">>})
           THEN /\ IsResult
                /\ ret.result.values[key].type = "bool"
                /\ ret.result.values[key].b = TRUE
           ELSE IF SpellsOneOf(raw, {<<"f", "a", "l", "s", "e">>, <<"0">>, <<"n", "o">>})
           THEN /\ IsResult
                /\ ret.result.values[key].type = "bool"
                /\ ret.result.values[key].b = FALSE
           ELSE /\ IsBatch
                /\ Len(ret.err.errs) = 1
                /\ ret.err.errs[1].Key = key
                /\ ret.err.errs[1].Reason.fmt
                     = "cannot parse %q as a boolean; accepted values are true, false, 1, 0, yes, no"
                /\ ret.err.errs[1].Reason.with = <<Quote(raw)>>

\* C13 witness: the raw value "FaLsE" after a tab and a space and before a
\* space gave false.
C13_Witness ==
    /\ Finished
    /\ fields = <<BooleanField>>
    /\ "A" \in DOMAIN env
    /\ env["A"] = <<"\t", " ", "F", "a", "L", "s", "E", " ">>
    /\ IsResult
    /\ ret.result.values["A"].type = "bool"
    /\ ret.result.values["A"].b = FALSE

\* C14: ValidateMap calls that run concurrently on one Validator, with
\* their per-field steps interleaved in any way, each return what the call
\* returns when it runs alone on its input map; and no step of any call
\* changes the declaration list or the input map of a call under way.
C14_ConcurrentPassesIndependent ==
    /\ [](\A c \in Passes :
            passes[c].pc = "done" => passes[c].ret = RunAlone(fields, passes[c].env))
    /\ [][/\ fields' = fields
          /\ \A c \in Passes : passes[c].pc # "idle" => passes'[c].env = passes[c].env
         ]_vars

\* C14 witness: of two calls on two declarations the second has returned a
\* batch while the first, with another input map and a failure of its own
\* recorded, is still in its loop.
C14_Witness ==
    /\ Len(fields) = 2
    /\ passes[1].pc = "loop"
    /\ passes[1].idx = 2
    /\ Len(passes[1].errs) = 1
    /\ passes[2].pc = "done"
    /\ passes[2].ret.err.kind = "ValidationErrors"
    /\ passes[2].env # passes[1].env
    /\ passes[2].ret.err.errs[1] # passes[1].errs[1]

\* The declaration whose cancellation check is the first to come after
\* the context was cancelled.
FirstCheckAfterCancel == IF ctx.at = 0 THEN 1 ELSE ctx.at

\* C15: when the context is cancelled before the check that precedes
\* declaration i, for any i up to the last declaration, ValidateMap returns
\* the cancellation error and neither a Result nor a batch, whatever
\* failures the declarations before i have left, and no declaration from i
\* on is evaluated.
C15_CancellationPreempts ==
    (Finished /\ ctx.done /\ FirstCheckAfterCancel <= Len(fields))
    => LET i == FirstCheckAfterCancel
       IN  /\ ret.err.kind = "context.Canceled"
           /\ ret.err.errs = <<>>
           /\ ret.result.nil
           /\ idx = i
           /\ errs = FailuresOf(SubSeq(fields, 1, i - 1), env)
           /\ values = ValuesOf(SubSeq(fields, 1, i - 1), env, EmptyMap)

\* C15 witness: the context was cancelled after the first of two
\* declarations had failed and before the check of the second, and the call
\* returned the cancellation error.
C15_Witness ==
    /\ Finished
    /\ ctx.done
    /\ ctx.at = 2
    /\ Len(fields) = 2
    /\ Len(errs) = 1
    /\ Fails(fields[2])
    /\ ret.err.kind = "context.Canceled"

\* The declaration f is not required, has an empty default, and its key is
\* not provided by the input map.
OptionalAndUnset(f) ==
    /\ ~f.Required
    /\ f.Default = <<>>
    /\ (f.Key \notin DOMAIN env \/ env[f.Key] = <<>>)

\* The failure the coercion of each kind gives.
KindFailure(kind) ==
    CASE kind = "integer" -> "cannot parse %q as an integer"
      [] kind = "float" -> "cannot parse %q as a float"
      [] kind = "boolean" ->
            "cannot parse %q as a boolean; accepted values are true, false, 1, 0, yes, no"
      [] kind = "url" -> "cannot parse %q as an absolute URL with scheme and host"
      [] kind = "duration" ->
            "cannot parse %q as a duration; use Go duration syntax such as 5s, 1m30s, or 2h"

\* C16: the iteration of a declaration that is not required, has an empty
\* default and whose key is not provided records no 'required' failure and
\* takes "" as the raw value: when allowed values are declared and "" is not
\* one of them it records the not-allowed failure of ""; otherwise a string
\* field stores "" and an integer, float, boolean, url or duration field
\* records the parse failure of its kind for "".  A pass with such a field
\* of those five kinds returns a batch, and the Result of a pass with such a
\* string field without allowed values, the only declaration of its key,
\* holds "" under the key.
C16_EmptyDefaultIsParsed ==
    /\ [][(pc = "loop" /\ idx' = idx + 1 /\ OptionalAndUnset(fields[idx])
           /\ fields[idx].Kind \in {"", "string", "integer", "float", "boolean", "url", "duration"})
          => LET f == fields[idx]
             IN  IF /\ Len(f.AllowedValues) > 0
                    /\ \A k \in 1..Len(f.AllowedValues) : f.AllowedValues[k] # <<>>
                 THEN /\ values' = values
                      /\ errs' = Append(errs,
                            [Key |-> f.Key,
                             Reason |-> [fmt |-> "value %q is not one of the allowed values: %s",
                                         with |-> <<Quote(<<>>), Join(f.AllowedValues)>>]])
                 ELSE IF f.Kind \in {"", "string"}
                 THEN /\ errs' = errs
                      /\ DOMAIN values' = DOMAIN values \cup {f.Key}
                      /\ values'[f.Key].type = "string"
                      /\ values'[f.Key].s = <<>>
                 ELSE /\ values' = values
                      /\ errs' = Append(errs,
                            [Key |-> f.Key,
                             Reason |-> [fmt |-> KindFailure(f.Kind),
                                         with |-> <<Quote(<<>>)>>]])
         ]_vars
    /\ [](FinishedUncancelled =>
            \A i \in 1..Len(fields) :
                OptionalAndUnset(fields[i]) =>
                    /\ fields[i].Kind \in {"integer", "float", "boolean", "url", "duration"}
                       => IsBatch /\ ret.result.nil
                    /\ (/\ fields[i].Kind \in {"", "string"}
                        /\ fields[i].AllowedValues = <<>>
                        /\ \A j \in 1..Len(fields) : fields[j].Key = fields[i].Key => j = i
                        /\ IsResult)
                       => /\ ret.result.values[fields[i].Key].type = "string"
                          /\ ret.result.values[fields[i].Key].s = <<>>)

\* C16 witness: of two declarations that are not required, have no default
\* and are not provided, the string one has stored "" and the integer one
\* has recorded the integer parse failure, and the pass returned a batch.
C16_Witness ==
    /\ FinishedUncancelled
    /\ Len(fields) = 2
    /\ OptionalAndUnset(fields[1]) /\ fields[1].Kind = "string" /\ fields[1].Key = "A"
    /\ OptionalAndUnset(fields[2]) /\ fields[2].Kind = "integer" /\ fields[2].Key = "B"
    /\ DOMAIN values = {"A"}
    /\ values["A"].s = <<>>
    /\ IsBatch
    /\ Len(ret.err.errs) = 1
    /\ ret.err.errs[1].Reason.fmt = "cannot parse %q as an integer"

=============================================================================
